---- MODULE Spec2Model ----
(***************************************************************************)
(* The generated-code repair pipeline of ManimCodeGenerator                *)
(* (src/code_generation/manim_code_generator.py, _clean_code and the       *)
(* passes it calls).                                                       *)
(*                                                                         *)
(* Text representation.  A buffer is a sequence of lines (code.split on    *)
(* the newline); a line is a sequence of tokens.  A token is one           *)
(* character (a digit, a space, a tab, a punctuation mark) or a word       *)
(* fragment (a run of letters and underscores that no pattern of the       *)
(* program looks inside).  A word that contains another word of the        *)
(* vocabulary is written as fragments ("sub","title"), so that Python's    *)
(* substring tests and regular expressions, which work on characters,      *)
(* give the same answer on tokens.                                         *)
(***************************************************************************)
EXTENDS Integers, Sequences, FiniteSets, TLC

\* ------------------------------------------------------------ characters

Digits == {"0", "1", "2", "3", "4", "5", "6", "7", "8", "9"}

Space == {" ", "\t"}

Punct == {".", ",", "(", ")", "[", "]", ":", ";", "=", "-", "*", ">", "<",
          "+", "#", "'", "\"", "~~~", "!"}

\* "~~~" stands for the three-backquote markdown fence (a backquote cannot be
\* written in a TLA+ string).

\* The word fragments of the vocabulary (letters and underscores only).
Words == {"self", "wait", "current_time", "elapsed", "total", "if", "x", "y",
          "def", "class", "f", "g", "A", "pass", "play",
          "Text", "MathTex", "font_size", "set_", "max_width", "move_to",
          "title", "sub", "c", "label", "r", "a", "b",
          "DEFAULT_FONT_SIZE", "FRAME_WIDTH", "FRAME_HEIGHT", "ShowCreation",
          "Create", "is", "not", "None", "from", "manim", "import", "numpy",
          "as", "np", "python"}

\* The word, digit and whitespace classes of Python's re module, on tokens.
WordTok == Words \cup Digits

Token == WordTok \cup Space \cup Punct

\* ------------------------------------------------------- sequence helpers

Min(m, n) == IF m <= n THEN m ELSE n

\* s[i..j] as Python's slice s[i-1:j]; empty when j < i.
Slice(s, i, j) == IF j < i THEN <<>> ELSE SubSeq(s, i, Min(j, Len(s)))

\* s[i:] counted from 1.
From(s, i) == Slice(s, i, Len(s))

\* p occurs in s starting at index i.
OccursAt(s, p, i) ==
    /\ i >= 1
    /\ i + Len(p) - 1 <= Len(s)
    /\ \A k \in 1..Len(p) : s[i + k - 1] = p[k]

\* str.find: the least index >= from at which p occurs in s, 0 when none.
Find(s, p, from) ==
    LET hits == {i \in from..(Len(s) - Len(p) + 1) : OccursAt(s, p, i)}
    IN  IF hits = {} THEN 0 ELSE CHOOSE i \in hits : \A j \in hits : i <= j

\* Python's `p in s`.
Contains(s, p) == Find(s, p, 1) # 0

\* str.startswith and str.endswith.
StartsWith(s, p) == OccursAt(s, p, 1)

EndsWith(s, p) == OccursAt(s, p, Len(s) - Len(p) + 1)

\* str.count of non-overlapping occurrences.
RECURSIVE CountFrom(_, _, _)
CountFrom(s, p, from) ==
    LET i == Find(s, p, from)
    IN  IF i = 0 THEN 0 ELSE 1 + CountFrom(s, p, i + Len(p))

Count(s, p) == CountFrom(s, p, 1)

\* str.replace: every non-overlapping occurrence of p, leftmost first.
RECURSIVE ReplaceFrom(_, _, _, _)
ReplaceFrom(s, p, r, from) ==
    LET i == Find(s, p, from)
    IN  IF i = 0 THEN From(s, from)
        ELSE Slice(s, from, i - 1) \o r \o ReplaceFrom(s, p, r, i + Len(p))

Replace(s, p, r) == ReplaceFrom(s, p, r, 1)

\* The number of leading whitespace tokens: len(line) - len(line.lstrip()).
RECURSIVE LeadLen(_)
LeadLen(s) ==
    IF s # <<>> /\ Head(s) \in Space THEN 1 + LeadLen(Tail(s)) ELSE 0

\* str.lstrip, str.rstrip and str.strip.
LStrip(s) == From(s, LeadLen(s) + 1)

RECURSIVE RStrip(_)
RStrip(s) ==
    IF s # <<>> /\ s[Len(s)] \in Space THEN RStrip(Slice(s, 1, Len(s) - 1)) ELSE s

Strip(s) == RStrip(LStrip(s))

\* ' ' * n.
RECURSIVE Spaces(_)
Spaces(n) == IF n <= 0 THEN <<>> ELSE <<" ">> \o Spaces(n - 1)

\* The concatenation of a sequence of sequences.
RECURSIVE Flatten(_)
Flatten(ss) == IF ss = <<>> THEN <<>> ELSE Head(ss) \o Flatten(Tail(ss))

\* ------------------------------------------------------------- numbers

DigitVal(d) ==
    CASE d = "0" -> 0 [] d = "1" -> 1 [] d = "2" -> 2 [] d = "3" -> 3
      [] d = "4" -> 4 [] d = "5" -> 5 [] d = "6" -> 6 [] d = "7" -> 7
      [] d = "8" -> 8 [] d = "9" -> 9

DigitTok(n) ==
    CASE n = 0 -> "0" [] n = 1 -> "1" [] n = 2 -> "2" [] n = 3 -> "3"
      [] n = 4 -> "4" [] n = 5 -> "5" [] n = 6 -> "6" [] n = 7 -> "7"
      [] n = 8 -> "8" [] n = 9 -> "9"

\* int(text) for a text of digits.
RECURSIVE ParseInt(_)
ParseInt(s) ==
    IF s = <<>> THEN 0
    ELSE 10 * ParseInt(Slice(s, 1, Len(s) - 1)) + DigitVal(s[Len(s)])

\* str(n) for n >= 0.
RECURSIVE IntText(_)
IntText(n) ==
    IF n < 10 THEN <<DigitTok(n)>> ELSE IntText(n \div 10) \o <<DigitTok(n % 10)>>

\* ------------------------------------------------- regular expressions
(***************************************************************************)
(* A pattern is a sequence of elements [c, lo, hi, lazy, g]: between lo    *)
(* and hi tokens of the class c, greedy unless lazy, belonging to capture  *)
(* group g (0: none).  ReMatch is re.match at index i with backtracking,   *)
(* as Python's re does it: an element takes as many tokens as it can (as   *)
(* few, when lazy) and gives some back when the rest cannot match.  The    *)
(* result is the sequence of boundaries, one before each element and one   *)
(* after the last, or the empty sequence when there is no match.           *)
(***************************************************************************)
Inf == 1000

El(c, lo, hi, g) == [c |-> c, lo |-> lo, hi |-> hi, lazy |-> FALSE, g |-> g]

Lit(t) == El({t}, 1, 1, 0)

\* The number of tokens of class c at s[i], s[i+1], ..., at most hi.
RECURSIVE RunLen(_, _, _, _)
RunLen(s, i, c, hi) ==
    IF hi > 0 /\ i <= Len(s) /\ s[i] \in c THEN 1 + RunLen(s, i + 1, c, hi - 1) ELSE 0

RECURSIVE ReMatch(_, _, _, _)
RECURSIVE ReTry(_, _, _, _, _, _)
ReMatch(pat, k, s, i) ==
    IF k > Len(pat) THEN <<i>>
    ELSE LET most == RunLen(s, i, pat[k].c, pat[k].hi)
         IN  IF most < pat[k].lo THEN <<>>
             ELSE ReTry(pat, k, s, i, IF pat[k].lazy THEN pat[k].lo ELSE most, most)

\* Element k takes n tokens; on failure of the rest it takes one fewer (one
\* more, when lazy).
ReTry(pat, k, s, i, n, most) ==
    IF n < pat[k].lo \/ n > most THEN <<>>
    ELSE LET rest == ReMatch(pat, k + 1, s, i + n)
         IN  IF rest # <<>> THEN <<i>> \o rest
             ELSE ReTry(pat, k, s, i, IF pat[k].lazy THEN n + 1 ELSE n - 1, most)

\* re.search from index from: the match at the least index, as
\* boundaries; the empty sequence when the pattern matches nowhere.
RECURSIVE ReSearchFrom(_, _, _)
ReSearchFrom(pat, s, from) ==
    IF from > Len(s) + 1 THEN <<>>
    ELSE LET m == ReMatch(pat, 1, s, from)
         IN  IF m # <<>> THEN m ELSE ReSearchFrom(pat, s, from + 1)

ReSearch(pat, s) == ReSearchFrom(pat, s, 1)

\* match.start() and match.end() (the index after the match).
MStart(m) == m[1]

MEnd(m) == m[Len(m)]

\* match.group(g): the text spanned by the elements of group g.
Group(pat, s, m, g) ==
    LET ks == {k \in 1..Len(pat) : pat[k].g = g}
        first == CHOOSE k \in ks : \A j \in ks : k <= j
        last == CHOOSE k \in ks : \A j \in ks : k >= j
    IN  Slice(s, m[first], m[last + 1] - 1)

\* A replacement template is a sequence of items: a literal text, or the
\* text of capture group g.
TLit(t) == [g |-> 0, t |-> t]

TGrp(g) == [g |-> g, t |-> <<>>]

RECURSIVE Expand(_, _, _, _)
Expand(tpl, pat, s, m) ==
    IF tpl = <<>> THEN <<>>
    ELSE (IF Head(tpl).g = 0 THEN Head(tpl).t ELSE Group(pat, s, m, Head(tpl).g))
         \o Expand(Tail(tpl), pat, s, m)

\* re.sub: every non-overlapping match, leftmost first, replaced by the
\* template.  After an empty match the scan moves on by one token.
RECURSIVE ReSubFrom(_, _, _, _)
ReSubFrom(pat, tpl, s, from) ==
    LET m == ReSearchFrom(pat, s, from)
    IN  IF m = <<>> THEN From(s, from)
        ELSE Slice(s, from, MStart(m) - 1) \o Expand(tpl, pat, s, m)
             \o (IF MEnd(m) > MStart(m) THEN ReSubFrom(pat, tpl, s, MEnd(m))
                 ELSE IF MStart(m) > Len(s) THEN <<>>
                 ELSE <<s[MStart(m)]>> \o ReSubFrom(pat, tpl, s, MStart(m) + 1))

ReSub(pat, tpl, s) == ReSubFrom(pat, tpl, s, 1)

\* ------------------------------------------------------ texts and lines

\* A text with no character: the line of an empty string.
Blank(line) == Strip(line) = <<>>

\* The number of characters of a token.
TokLen(t) == IF t = "~~~" THEN 3 ELSE Len(t)

\* str.expandtabs(4): a tab becomes the spaces that reach the next column
\* that is a multiple of 4; col is the column of the first token of s.
TabSize == 4

RECURSIVE ExpandTabsAt(_, _)
ExpandTabsAt(s, col) ==
    IF s = <<>> THEN <<>>
    ELSE IF Head(s) = "\t"
         THEN Spaces(TabSize - (col % TabSize))
              \o ExpandTabsAt(Tail(s), col + TabSize - (col % TabSize))
         ELSE <<Head(s)>> \o ExpandTabsAt(Tail(s), col + TokLen(Head(s)))

ExpandTabs(s) == ExpandTabsAt(s, 0)

\* Some line of the buffer contains the text p: `p in code` for a p
\* without a newline.
CodeContains(buf, p) == \E i \in 1..Len(buf) : Contains(buf[i], p)

\* code.strip(): the whitespace at both ends of the whole text goes,
\* line breaks included.  The text is never without a line: the empty
\* string splits into one empty line.
RECURSIVE DropBlankHead(_)
DropBlankHead(buf) ==
    IF Len(buf) > 1 /\ Blank(Head(buf)) THEN DropBlankHead(Tail(buf)) ELSE buf

RECURSIVE DropBlankTail(_)
DropBlankTail(buf) ==
    IF Len(buf) > 1 /\ Blank(buf[Len(buf)])
    THEN DropBlankTail(SubSeq(buf, 1, Len(buf) - 1)) ELSE buf

StripCode(buf) ==
    LET a == DropBlankHead(buf)
        b == [a EXCEPT ![1] = LStrip(a[1])]
        c == DropBlankTail(b)
    IN  [c EXCEPT ![Len(c)] = RStrip(c[Len(c)])]

\* ------------------------------------------------------------ _clean_code

FenceTok == <<"~~~">>

FencePython == <<"~~~", "python">>

ImportStar == <<"from", " ", "manim", " ", "import", " ", "*">>

\* Lines 409-420: strip, drop a leading and a trailing markdown fence, strip.
Unfence(buf) ==
    LET a == StripCode(buf)
        b == IF StartsWith(a[1], FencePython)
             THEN [a EXCEPT ![1] = From(a[1], Len(FencePython) + 1)]
             ELSE IF StartsWith(a[1], FenceTok)
                  THEN [a EXCEPT ![1] = From(a[1], Len(FenceTok) + 1)]
                  ELSE a
        n == Len(b)
        c == IF EndsWith(b[n], FenceTok)
             THEN [b EXCEPT ![n] = Slice(b[n], 1, Len(b[n]) - Len(FenceTok))]
             ELSE b
    IN  StripCode(c)

\* Lines 422-424: a manim import is put in front when the text has none.
EnsureImport(buf) ==
    IF /\ ~CodeContains(buf, <<"from", " ", "manim", " ", "import">>)
       /\ ~CodeContains(buf, <<"import", " ", "manim">>)
    THEN <<ImportStar, <<>>>> \o buf
    ELSE buf

\* ------------------------------------------------ _fix_import_statements

FixImportLine(line) ==
    IF Contains(line, ImportStar \o <<"import">>)
    THEN LET star_pos == Find(line, <<"*">>, 1)
             after_star == From(line, star_pos + 1)
         IN  IF Contains(after_star, <<"import">>)
             THEN << Slice(line, 1, star_pos),
                     From(after_star, Find(after_star, <<"import">>, 1)) >>
             ELSE <<line>>
    ELSE <<line>>

FixImportStatements(buf) == Flatten([i \in 1..Len(buf) |-> FixImportLine(buf[i])])

\* ------------------------------------------------- _fix_modern_manim_api

AnyTok == Token

SetFontSizePat ==
    << El(WordTok, 1, Inf, 1), Lit("."), Lit("set_"), Lit("font_size"), Lit("("),
       El(AnyTok \ {")"}, 1, Inf, 2), Lit(")") >>

TimesDefaultPat ==
    << El(Digits, 0, Inf, 1), El({"."}, 0, 1, 1), El(Digits, 0, Inf, 1),
       El(Space, 0, Inf, 0), Lit("*"), El(Space, 0, Inf, 0), Lit("DEFAULT_FONT_SIZE") >>

IsNotNonePat ==
    << El(Digits, 1, Inf, 1), El({"."}, 0, 1, 1), El(Digits, 0, Inf, 1),
       El(Space, 1, Inf, 0), Lit("is"), El(Space, 1, Inf, 0), Lit("not"),
       El(Space, 1, Inf, 0), Lit("None") >>

\* Lines 521-527.
FixDefaultFontSize(line) ==
    IF Contains(line, <<"DEFAULT_FONT_SIZE">>)
    THEN Replace(ReSub(TimesDefaultPat, <<TGrp(1), TLit(<<" ", "*", " ", "2", "4">>)>>, line),
                 <<"DEFAULT_FONT_SIZE">>, <<"2", "4">>)
    ELSE line

\* Lines 529-534.
FixFrameWidth(line) ==
    IF Contains(line, <<"FRAME_WIDTH">>)
    THEN Replace(Replace(Replace(line,
             <<"FRAME_WIDTH", " ", "-", " ", "1">>, <<"1", "3">>),
             <<"FRAME_WIDTH", " ", "-", " ", "2">>, <<"1", "2">>),
             <<"FRAME_WIDTH">>, <<"1", "4">>)
    ELSE line

\* Lines 536-538.
FixFrameHeight(line) ==
    IF Contains(line, <<"FRAME_HEIGHT">>)
    THEN Replace(line, <<"FRAME_HEIGHT">>, <<"8">>)
    ELSE line

\* Lines 540-545.
FixIsNotNone(line) ==
    IF /\ Contains(line, <<"is", " ", "not", " ", "None">>)
       /\ \E d \in Digits : Contains(line, <<".", d>>)
    THEN ReSub(IsNotNonePat, <<TGrp(1), TLit(<<" ", "!", "=", " ", "None">>)>>, line)
    ELSE line

\* Lines 547-549.
FixShowCreation(line) ==
    IF Contains(line, <<"ShowCreation", "(">>)
    THEN Replace(line, <<"ShowCreation", "(">>, <<"Create", "(">>)
    ELSE line

\* Lines 504-551: one line of the loop.  A matched set_font_size call is
\* emitted as an attribute assignment and the other rules are skipped
\* (continue).
FixApiLine(line) ==
    LET m == ReSearch(SetFontSizePat, line)
    IN  IF Contains(line, <<".", "set_", "font_size", "(">>) /\ m # <<>>
        THEN Spaces(LeadLen(line)) \o Group(SetFontSizePat, line, m, 1)
             \o <<".", "font_size", " ", "=", " ">> \o Group(SetFontSizePat, line, m, 2)
        ELSE FixShowCreation(FixIsNotNone(FixFrameHeight(FixFrameWidth(
                 FixDefaultFontSize(line)))))

FixModernManimApi(buf) == [i \in 1..Len(buf) |-> FixApiLine(buf[i])]

\* ------------------------------------------------ _normalize_indentation

IndentUnit == 4

\* Lines 445-470: one line of the loop.
NormalizeLine(line) ==
    IF Blank(line) THEN <<>>
    ELSE LET l2 == IF Contains(line, <<"\t">>) THEN ExpandTabs(line) ELSE line
             original_indent == LeadLen(l2)
             indent_level == (original_indent + 2) \div IndentUnit
         IN  Spaces(IndentUnit * indent_level) \o LStrip(l2)

NormalizeIndentation(buf) == [i \in 1..Len(buf) |-> NormalizeLine(buf[i])]

\* ----------------------------------------------- _fix_timing_calculations

SelfWait == <<"self", ".", "wait", "(">>

WaitPat ==
    << Lit("self"), Lit("."), Lit("wait"), Lit("("),
       El(Digits \cup {"."}, 1, Inf, 1), El(Space, 0, Inf, 0), Lit("-"),
       El(Space, 0, Inf, 0), Lit("current_time"), Lit(")") >>

\* Lines 619-622 and 634-637: the guard and, one level deeper, the wait.
GuardedWait(line, m) ==
    LET start_time == Group(WaitPat, line, m, 1)
        spacing == Spaces(LeadLen(line))
    IN  << spacing \o <<"if", " ">> \o start_time
               \o <<" ", ">", " ", "current_time", ":">>,
           spacing \o Spaces(4) \o SelfWait \o start_time
               \o <<" ", "-", " ", "current_time", ")">> >>

\* Lines 608-640: one line of the loop.
FixTimingLine(line) ==
    LET m == ReSearch(WaitPat, line)
    IN  IF /\ Contains(line, SelfWait)
           /\ Contains(line, <<" ", "-", " ", "current_time">>)
           /\ m # <<>>
        THEN GuardedWait(line, m)
        ELSE IF /\ Contains(line, SelfWait)
                /\ Contains(line, <<" ", "-", " ", "current_time", ")">>)
                /\ ~Contains(line, <<"if", " ">>)
                /\ m # <<>>
             THEN GuardedWait(line, m)
             ELSE <<line>>

FixTimingCalculations(buf) == Flatten([i \in 1..Len(buf) |-> FixTimingLine(buf[i])])

\* --------------------------------------------- _fix_redundant_conditionals

IfSp == <<"if", " ">>

\* re.search(r'if\s+(.+?):\s*if\s+(.+?):', line)
DoubleIfPat ==
    << Lit("if"), El(Space, 1, Inf, 0), [El(AnyTok, 1, Inf, 1) EXCEPT !.lazy = TRUE],
       Lit(":"), El(Space, 0, Inf, 0), Lit("if"), El(Space, 1, Inf, 0),
       [El(AnyTok, 1, Inf, 2) EXCEPT !.lazy = TRUE], Lit(":") >>

\* The literal pattern of a text: one element for each token.
LitPat(t) == [k \in 1..Len(t) |-> Lit(t[k])]

\* r'if\s+(.+?):\s*if\s+\1:' with w whitespace tokens after the first if
\* and a group 1 of n tokens: the backreference is the text the group took.
BackrefPat(s, i, w, n) ==
    << Lit("if"), El(Space, w, w, 0), El(AnyTok, n, n, 1), Lit(":"),
       El(Space, 0, Inf, 0), Lit("if"), El(Space, 1, Inf, 0) >>
    \o LitPat(Slice(s, i + 1 + w, i + w + n)) \o <<Lit(":")>>

\* re.match of the backreference pattern at index i: the whitespace run
\* greedy (w from the most down), the group lazy (n from 1 up).  The result
\* is <<end, group>> or the empty sequence.
RECURSIVE BackrefTry(_, _, _, _)
BackrefTry(s, i, w, n) ==
    IF w < 1 THEN <<>>
    ELSE IF i + w + n > Len(s) THEN BackrefTry(s, i, w - 1, 1)
    ELSE LET m == ReMatch(BackrefPat(s, i, w, n), 1, s, i)
         IN  IF m # <<>> THEN <<MEnd(m), Slice(s, i + 1 + w, i + w + n)>>
             ELSE BackrefTry(s, i, w, n + 1)

BackrefMatch(s, i) ==
    IF i <= Len(s) /\ s[i] = "if"
    THEN BackrefTry(s, i, RunLen(s, i + 1, Space, Inf), 1)
    ELSE <<>>

\* re.sub(r'if\s+(.+?):\s*if\s+\1:', r'if \1:', line)
RECURSIVE BackrefSubFrom(_, _)
BackrefSubFrom(s, i) ==
    IF i > Len(s) THEN <<>>
    ELSE LET m == BackrefMatch(s, i)
         IN  IF m # <<>>
             THEN <<"if", " ">> \o m[2] \o <<":">> \o BackrefSubFrom(s, m[1])
             ELSE <<s[i]>> \o BackrefSubFrom(s, i + 1)

\* Lines 675-685: two equal conditions on one line become one.
FixInlineDoubleIf(line) ==
    IF Contains(line, IfSp) /\ Count(line, IfSp) > 1
    THEN LET m == ReSearch(DoubleIfPat, line)
         IN  IF m # <<>> /\ Strip(Group(DoubleIfPat, line, m, 1))
                            = Strip(Group(DoubleIfPat, line, m, 2))
             THEN BackrefSubFrom(line, 1)
             ELSE line
    ELSE line

\* Lines 650-688: the loop from index i on.
RECURSIVE DedupFrom(_, _)
DedupFrom(lines, i) ==
    IF i > Len(lines) THEN <<>>
    ELSE LET line == lines[i]
             has_next == i + 1 <= Len(lines)
             next_line == lines[i + 1]
         IN  IF /\ StartsWith(Strip(line), IfSp) /\ has_next
                /\ \/ /\ Strip(line) = Strip(next_line)
                      /\ StartsWith(Strip(line), IfSp)
                      /\ StartsWith(Strip(next_line), IfSp)
                   \/ /\ EndsWith(Strip(line), <<":">>)
                      /\ Strip(next_line) = Strip(line)
             THEN <<line>> \o DedupFrom(lines, i + 2)
             ELSE <<FixInlineDoubleIf(line)>> \o DedupFrom(lines, i + 1)

FixRedundantConditionals(buf) == DedupFrom(buf, 1)

\* ------------------------------------------- _fix_text_overflow_and_sizing

MaxFontSize == 40

DefaultFontSize == 24

LookAhead == 10

\* re.search(r'font_size\s*=\s*(\d+)', line)
FontSizePat ==
    << Lit("font_size"), El(Space, 0, Inf, 0), Lit("="), El(Space, 0, Inf, 0),
       El(Digits, 1, Inf, 1) >>

\* re.search(r'(\w+)\.font_size\s*=\s*(\d+)', line)
FontAssignPat ==
    << El(WordTok, 1, Inf, 1), Lit("."), Lit("font_size"), El(Space, 0, Inf, 0),
       Lit("="), El(Space, 0, Inf, 0), El(Digits, 1, Inf, 2) >>

\* re.search(r'(\w+)\s*=\s*(Text|MathTex)\(', line)
TextDeclPat ==
    << El(WordTok, 1, Inf, 1), El(Space, 0, Inf, 0), Lit("="), El(Space, 0, Inf, 0),
       El({"Text", "MathTex"}, 1, 1, 2), Lit("(") >>

\* re.search(r'(?:Text|MathTex)\([r]?["\']([^"\']+)["\']', line)
Quote == {"'", "\""}

TextContentPat ==
    << El({"Text", "MathTex"}, 1, 1, 0), Lit("("), El({"r"}, 0, 1, 0),
       El(Quote, 1, 1, 0), El(AnyTok \ Quote, 1, Inf, 1), El(Quote, 1, 1, 0) >>

\* re.search(r'(\w+)\.move_to\(\[([-\d.]+),\s*([-\d.]+)', line)
CoordTok == Digits \cup {"-", "."}

MoveToPat ==
    << El(WordTok, 1, Inf, 1), Lit("."), Lit("move_to"), Lit("("), Lit("["),
       El(CoordTok, 1, Inf, 2), Lit(","), El(Space, 0, Inf, 0), El(CoordTok, 1, Inf, 3) >>

\* len(text): the number of characters of a text.
RECURSIVE CharLen(_)
CharLen(s) == IF s = <<>> THEN 0 ELSE TokLen(Head(s)) + CharLen(Tail(s))

\* Lines 713 and 720: re.sub(r'font_size\s*=\s*\d+', 'font_size=40', line).
ClampSub(line) ==
    ReSub(FontSizePat, <<TLit(<<"font_size", "=">> \o IntText(MaxFontSize))>>, line)

\* Lines 707-713.
ClampConstructorFont(line) ==
    LET m == ReSearch(FontSizePat, line)
    IN  IF /\ Contains(line, <<"font_size", "=">>)
           /\ m # <<>>
           /\ ParseInt(Group(FontSizePat, line, m, 1)) > MaxFontSize
        THEN ClampSub(line)
        ELSE line

\* Lines 715-720.
ClampAssignedFont(line) ==
    LET m == ReSearch(FontAssignPat, line)
    IN  IF m # <<>> /\ ParseInt(Group(FontAssignPat, line, m, 2)) > MaxFontSize
        THEN ClampSub(line)
        ELSE line

\* Lines 754-762: the width tier.
\* The two thresholds of each tier joined by "and" instead of "or".
WidthTier_Conjunctive(text_length, font_size) ==
    IF text_length > 60 /\ font_size > 32 THEN 9
    ELSE IF text_length > 40 /\ font_size > 28 THEN 10
    ELSE IF text_length > 20 THEN 11
    ELSE 12

\* Lines 755-762.
WidthTier(text_length, font_size) ==
    IF text_length > 60 \/ font_size > 32 THEN 9
    ELSE IF text_length > 40 \/ font_size > 28 THEN 10
    ELSE IF text_length > 20 THEN 11
    ELSE 12

\* Lines 744-750: one of the (at most) 10 lines after index i holds
\* '<obj_name>.set_max_width'.
HasMaxWidth(lines, i, obj_name) ==
    \E j \in (i + 1)..Min(i + LookAhead, Len(lines)) :
        Contains(lines[j], obj_name \o <<".", "set_", "max_width">>)

\* Lines 727-732: the length of the quoted text and the font size of a
\* declaration (0 and 24 when the line shows none).
ContentLength(line, cm) ==
    IF cm # <<>> THEN CharLen(Group(TextContentPat, line, cm, 1)) ELSE 0

TextLength(line) == ContentLength(line, ReSearch(TextContentPat, line))

FontSizeIn(line, fm) ==
    IF fm # <<>> THEN ParseInt(Group(FontSizePat, line, fm, 1)) ELSE DefaultFontSize

FontSizeOf(line) == FontSizeIn(line, ReSearch(FontSizePat, line))

\* Lines 752-765: the width call added after the declaration at index i.
Injection(lines, i, line, obj_name) ==
    IF ~HasMaxWidth(lines, i, obj_name) /\ TextLength(line) > 0
    THEN << Spaces(LeadLen(lines[i])) \o obj_name \o <<".", "set_", "max_width", "(">>
            \o IntText(WidthTier(TextLength(line), FontSizeOf(line))) \o <<")">> >>
    ELSE <<>>

\* The result of the first pass: the fixed lines, and the registry
\* text_objects as the set of the names registered (the code keeps a record
\* for each name and reads only whether a name is a key).
Scan1Emit(ls, names, rest) ==
    [lines |-> ls \o rest.lines, objs |-> names \cup rest.objs]

\* Lines 701-770: the first pass from index i on.
RECURSIVE Scan1From(_, _)
Scan1Decl(lines, i, line, obj_name) ==
    Scan1Emit(<<line>> \o Injection(lines, i, line, obj_name), {obj_name},
              Scan1From(lines, i + 1))

Scan1Line(lines, i, line, text_match) ==
    IF text_match = <<>> THEN Scan1Emit(<<line>>, {}, Scan1From(lines, i + 1))
    ELSE Scan1Decl(lines, i, line, Group(TextDeclPat, line, text_match, 1))

Scan1Fixed(lines, i, line) == Scan1Line(lines, i, line, ReSearch(TextDeclPat, line))

Scan1From(lines, i) ==
    IF i > Len(lines) THEN [lines |-> <<>>, objs |-> {}]
    ELSE Scan1Fixed(lines, i, ClampAssignedFont(ClampConstructorFont(lines[i])))

(***************************************************************************)
(* Coordinates.  A coordinate text is made of digits, '.' and '-'.  Its    *)
(* value is kept exactly, in hundredths; the texts of the inputs carry at  *)
(* most two decimals.  Where the floating-point comparison of the code     *)
(* differs from the exact one, the difference is tabulated (RoundsBelow).  *)
(***************************************************************************)
Scale == 100

XLimit == 600

YLimit == 350

MinSpacing == 80

\* float(t) succeeds: an optional sign, digits with at most one '.', and at
\* least one digit.  Anything else raises ValueError.
FloatOK(t) ==
    LET u == IF t # <<>> /\ Head(t) = "-" THEN Tail(t) ELSE t
    IN  /\ \A k \in 1..Len(u) : u[k] \in Digits \cup {"."}
        /\ Cardinality({k \in 1..Len(u) : u[k] = "."}) <= 1
        /\ \E k \in 1..Len(u) : u[k] \in Digits

\* float(t), in hundredths.
FloatVal(t) ==
    LET neg == Head(t) = "-"
        u == IF neg THEN Tail(t) ELSE t
        dot == Find(u, <<".">>, 1)
        whole == IF dot = 0 THEN u ELSE Slice(u, 1, dot - 1)
        frac == IF dot = 0 THEN <<>> ELSE Slice(u, dot + 1, dot + 2)
        cents == IF Len(frac) = 0 THEN 0
                 ELSE IF Len(frac) = 1 THEN 10 * ParseInt(frac)
                 ELSE ParseInt(frac)
        v == Scale * ParseInt(whole) + cents
    IN  IF neg THEN 0 - v ELSE v

\* f'{v:.2f}' for a value in hundredths.
Format2f(v) ==
    LET a == IF v < 0 THEN 0 - v ELSE v
    IN  (IF v < 0 THEN <<"-">> ELSE <<>>) \o IntText(a \div Scale) \o <<".">>
        \o <<DigitTok((a % Scale) \div 10), DigitTok(a % 10)>>

\* Lines 786-796 and 811-815.
Clamp(v, limit) == IF v > limit THEN limit ELSE IF v < 0 - limit THEN 0 - limit ELSE v

Abs(v) == IF v < 0 THEN 0 - v ELSE v

\* Line 805 compares doubles.  Coordinates here are exact hundredths, and the
\* two agree except when the decimal distance is exactly 0.8: the double
\* difference can then fall below the double 0.8 (abs(1.7 - 0.9) is
\* 0.7999999999999999).  These are the pairs <<y_pos, existing_y>>, among the
\* coordinates the inputs below can produce, for which it does.
RoundsBelow == { <<170, 90>>, <<90, 170>>, <<100, 180>>, <<340, 260>> }

\* Line 805: abs(y_pos - existing_y) < min_spacing.
TooClose(y_pos, existing_y) ==
    \/ Abs(y_pos - existing_y) < MinSpacing
    \/ <<y_pos, existing_y>> \in RoundsBelow

\* The displacement measured from the object's own candidate y, away from
\* the entry, instead of from the entry's y.
AdjustY_FromCandidate(y_pos, text_y_positions) ==
    LET close == {k \in 1..Len(text_y_positions) :
                     TooClose(y_pos, text_y_positions[k])}
    IN  IF close = {} THEN y_pos
        ELSE LET k == CHOOSE k \in close : \A j \in close : k <= j
                 existing_y == text_y_positions[k]
             IN  Clamp(IF y_pos > existing_y THEN y_pos + MinSpacing
                       ELSE y_pos - MinSpacing, YLimit)

\* Lines 801-816: the first ledger entry closer than the minimum spacing
\* displaces the object to that entry's y plus or minus the spacing.
AdjustY(y_pos, text_y_positions) ==
    LET close == {k \in 1..Len(text_y_positions) :
                     TooClose(y_pos, text_y_positions[k])}
    IN  IF close = {} THEN y_pos
        ELSE LET k == CHOOSE k \in close : \A j \in close : k <= j
                 existing_y == text_y_positions[k]
             IN  Clamp(IF y_pos > existing_y THEN existing_y + MinSpacing
                       ELSE existing_y - MinSpacing, YLimit)

\* Lines 776-829: the second pass from index i on, with the registry objs
\* and the ledger text_y_positions.  [ok: no exception, lines: the final
\* lines].
Scan2Emit(line, rest) == [ok |-> rest.ok, lines |-> <<line>> \o rest.lines]

\* Lines 818-823: every positioning call of the line is rewritten.
MoveSub(line, obj_name, x_pos, adjusted_y) ==
    ReSub(MoveToPat,
          << TLit(obj_name \o <<".", "move_to", "(", "[">> \o Format2f(x_pos)
                  \o <<",", " ">> \o Format2f(adjusted_y)) >>, line)

RECURSIVE Scan2From(_, _, _, _)
\* Lines 799-826: a registered text object.
Scan2Text(lines, i, objs, text_y_positions, obj_name, x_pos, adjusted_y) ==
    Scan2Emit(MoveSub(lines[i], obj_name, x_pos, adjusted_y),
              Scan2From(lines, i + 1, objs, Append(text_y_positions, adjusted_y)))

\* Lines 786-799: the clamped coordinates.
Scan2Clamped(lines, i, objs, text_y_positions, obj_name, x_pos, y_pos) ==
    IF obj_name \in objs
    THEN Scan2Text(lines, i, objs, text_y_positions, obj_name, x_pos,
                   AdjustY(y_pos, text_y_positions))
    ELSE Scan2Emit(lines[i], Scan2From(lines, i + 1, objs, text_y_positions))

\* Lines 782-784: float() of the two coordinate texts.
Scan2Coords(lines, i, objs, text_y_positions, obj_name, xt, yt) ==
    IF ~FloatOK(xt) \/ ~FloatOK(yt) THEN [ok |-> FALSE, lines |-> <<>>]
    ELSE Scan2Clamped(lines, i, objs, text_y_positions, obj_name,
                      Clamp(FloatVal(xt), XLimit), Clamp(FloatVal(yt), YLimit))

Scan2Line(lines, i, objs, text_y_positions, m) ==
    IF m = <<>> THEN Scan2Emit(lines[i], Scan2From(lines, i + 1, objs, text_y_positions))
    ELSE Scan2Coords(lines, i, objs, text_y_positions,
                     Group(MoveToPat, lines[i], m, 1),
                     Group(MoveToPat, lines[i], m, 2),
                     Group(MoveToPat, lines[i], m, 3))

Scan2From(lines, i, objs, text_y_positions) ==
    IF i > Len(lines) THEN [ok |-> TRUE, lines |-> <<>>]
    ELSE Scan2Line(lines, i, objs, text_y_positions, ReSearch(MoveToPat, lines[i]))

Scan2Of(s1) == Scan2From(s1.lines, 1, s1.objs, <<>>)

\* Lines 692-831.  [ok, lines]: ok is FALSE when float() raised ValueError.
FixTextOverflowAndSizing(buf) == Scan2Of(Scan1From(buf, 1))

\* ------------------------------------------------- compile(code, ..., 'exec')
(***************************************************************************)
(* Python's parser on the texts of the vocabulary.  A line is reduced to   *)
(* its skeleton (string literals become one mark, a comment goes), the     *)
(* skeleton is classed as a simple statement, a block opener or a          *)
(* malformed line, and the lines' indentation is checked with the          *)
(* tokenizer's stack of indentation levels.  No line of the vocabulary     *)
(* closes a bracket opened on an earlier line, so a line with an open      *)
(* bracket or an open string cannot be completed.                          *)
(***************************************************************************)
StrMark == "<str>"

BadMark == "<bad>"

BlockKw == {"if", "def", "class"}

ScopeKw == {"def", "class"}

\* q is the quote of the string literal the scan is inside, or "".
RECURSIVE Skeleton(_, _)
Skeleton(s, q) ==
    IF s = <<>> THEN (IF q = "" THEN <<>> ELSE <<BadMark>>)
    ELSE IF q # ""
         THEN IF Head(s) = q THEN <<StrMark>> \o Skeleton(Tail(s), "")
              ELSE Skeleton(Tail(s), q)
         ELSE IF Head(s) = "#" THEN <<>>
              ELSE IF Head(s) \in Quote THEN Skeleton(Tail(s), Head(s))
              ELSE <<Head(s)>> \o Skeleton(Tail(s), "")

\* The code of a line: its skeleton without the whitespace at both ends.
CodeOf(line) == Strip(Skeleton(line, ""))

\* The bracket depth after the first k tokens.
RECURSIVE Depth(_, _)
Depth(s, k) ==
    IF k = 0 THEN 0
    ELSE Depth(s, k - 1) + (IF s[k] \in {"(", "["} THEN 1
                            ELSE IF s[k] \in {")", "]"} THEN -1 ELSE 0)

\* The index of the first token after index k that is not whitespace, or
\* Len(s) + 1.
RECURSIVE NextCode(_, _)
NextCode(s, k) ==
    IF k + 1 > Len(s) THEN Len(s) + 1
    ELSE IF s[k + 1] \in Space THEN NextCode(s, k + 1) ELSE k + 1

\* The index of the first ':' outside brackets, 0 when none.
TopColon(s) ==
    LET cs == {k \in 1..Len(s) : s[k] = ":" /\ Depth(s, k) = 0}
    IN  IF cs = {} THEN 0 ELSE CHOOSE k \in cs : \A j \in cs : k <= j

\* The tokens that cannot stand where an operand is expected.
NoOperand == {",", ")", "]", ":", ";"}

Malformed(s) ==
    \/ \E k \in 1..Len(s) : s[k] \in {BadMark, "~~~"}
    \/ \E k \in 1..Len(s) : Depth(s, k) < 0
    \/ Depth(s, Len(s)) # 0
    \* a number with two points, as 1.2.3
    \/ \E i \in 1..Len(s), j \in 1..Len(s) :
          /\ i < j /\ s[i] = "." /\ s[j] = "."
          /\ \A k \in (i + 1)..(j - 1) : s[k] \in Digits
    \* a point that neither follows a name or a number nor starts a fraction
    \/ \E k \in 1..Len(s) :
          /\ s[k] = "."
          /\ (k = 1 \/ s[k - 1] \notin WordTok \cup {")", "]", StrMark})
          /\ (k = Len(s) \/ s[k + 1] \notin Digits)
    \* an operator without its right operand, as in [-, 0]
    \/ \E k \in 1..Len(s) :
          /\ s[k] \in {"-", "+", "*", ">", "<"}
          /\ ~(s[k] = "*" /\ EndsWith(Strip(Slice(s, 1, k - 1)), <<"import">>))
          /\ (NextCode(s, k) > Len(s) \/ s[NextCode(s, k)] \in NoOperand)
    \* from manim import * followed by more text
    \/ \E k \in 1..Len(s) :
          /\ s[k] = "*"
          /\ EndsWith(Strip(Slice(s, 1, k - 1)), <<"import">>)
          /\ k < Len(s)
    \* a block keyword without its colon, or with a compound statement
    \* after the colon
    \/ /\ s # <<>> /\ Head(s) \in BlockKw
       /\ \/ TopColon(s) = 0
          \/ /\ TopColon(s) < Len(s)
             /\ s[NextCode(s, TopColon(s))] \in BlockKw

\* "bad", "opener" (a compound statement's header: its body follows on the
\* next lines) or "simple".
LineKind(s) ==
    IF Malformed(s) THEN "bad"
    ELSE IF s # <<>> /\ Head(s) \in BlockKw /\ TopColon(s) = Len(s) THEN "opener"
    ELSE "simple"

\* The tokenizer's indentation stack is a sequence of [ind, scope]: scope
\* says that the block lies inside a def or a class, where a wildcard
\* import is a syntax error.  pending: the line before was a block opener;
\* pscope: and it was a def or a class.
RECURSIVE PopTo(_, _)
PopTo(stack, ind) ==
    IF Len(stack) > 1 /\ stack[Len(stack)].ind > ind
    THEN PopTo(SubSeq(stack, 1, Len(stack) - 1), ind)
    ELSE stack

\* The column of the first token of a line as the tokenizer of compile()
\* counts it: a tab reaches the next column that is a multiple of 8.
RECURSIVE IndentCol(_, _)
IndentCol(s, col) ==
    IF s = <<>> \/ Head(s) \notin Space THEN col
    ELSE IF Head(s) = "\t" THEN IndentCol(Tail(s), col + 8 - (col % 8))
         ELSE IndentCol(Tail(s), col + 1)

\* The tokenizer keeps a second column, alt, in which a tab counts one
\* column; a line whose two columns compare differently with the enclosing
\* block's is rejected (TabError).
RECURSIVE ParseFrom(_, _, _, _, _)
ParseFrom(lines, i, stack, pending, pscope) ==
    IF i > Len(lines) THEN ~pending
    ELSE LET s == CodeOf(lines[i])
             ind == IndentCol(lines[i], 0)
             alt == LeadLen(lines[i])
             top == stack[Len(stack)]
             kind == LineKind(s)
             stack2 == IF pending
                       THEN Append(stack, [ind |-> ind, alt |-> alt,
                                           scope |-> top.scope \/ pscope])
                       ELSE PopTo(stack, ind)
             top2 == stack2[Len(stack2)]
         IN  IF s = <<>> THEN ParseFrom(lines, i + 1, stack, pending, pscope)
             ELSE /\ kind # "bad"
                  /\ IF pending THEN ind > top.ind /\ alt > top.alt
                     ELSE ind <= top.ind
                  /\ top2.ind = ind
                  /\ top2.alt = alt
                  /\ ~(top2.scope /\ Contains(s, <<"import", " ", "*">>))
                  /\ ParseFrom(lines, i + 1, stack2, kind = "opener",
                               Head(s) \in ScopeKw)

\* compile(code, '<string>', 'exec') raises no SyntaxError.
Parses(buf) == ParseFrom(buf, 1, <<[ind |-> 0, alt |-> 0, scope |-> FALSE]>>, FALSE, FALSE)

\* ---------------------------------------------- _validate_and_fix_syntax

DefSp == <<"def", " ">>

ClassSp == <<"class", " ">>

\* Lines 581-596: one line of the loop over enumerate(lines).
HeuristicLine(lines, i) ==
    LET line == lines[i]
        stripped == Strip(line)
    IN  IF StartsWith(stripped, DefSp) \/ StartsWith(stripped, ClassSp)
        THEN IF ~StartsWith(line, DefSp) /\ ~StartsWith(line, ClassSp)
             THEN IF i > 1 /\ EndsWith(Strip(lines[i - 1]), <<":">>)
                  THEN Spaces(4) \o stripped
                  ELSE stripped
             ELSE line
        ELSE line

\* Lines 569-601: the parse attempt and, when it fails, the heuristic.
TryCompile(buf) ==
    IF Parses(buf) THEN buf
    ELSE [i \in 1..Len(buf) |-> HeuristicLine(buf, i)]

\* ------------------------------------------------------------- the inputs
(***************************************************************************)
(* The texts given to _clean_code: every buffer of at most MaxLines lines  *)
(* drawn from one of the families below, and the padded declarations.      *)
(***************************************************************************)
MaxLines == 3

MaxGap == 11

Ind(n, body) == Spaces(n) \o body

WaitLit == SelfWait \o <<"5", " ", "-", " ", "current_time", ")">>

WaitTight == SelfWait \o <<"5", "-", "current_time", ")">>

WaitVars == SelfWait \o <<"total", " ", "-", " ", "elapsed", ")">>

GuardLit == <<"if", " ", "5", " ", ">", " ", "current_time", ":">>

GuardX == <<"if", " ", "x", " ", ">", " ", "0", ":">>

TimingLines ==
    { WaitLit, Ind(4, WaitLit), GuardLit, WaitTight, WaitVars, GuardX }

Title == <<"title">>

DeclBig == Title \o <<" ", "=", " ", "Text", "(", "\"", "a", "\"", ",", " ",
                      "font_size", "=", "4", "8", ")">>

DeclEmpty == Title \o <<" ", "=", " ", "Text", "(", "\"", "\"", ")">>

DeclVar == Title \o <<" ", "=", " ", "MathTex", "(", "label", ")">>

DeclTwo == <<"a", " ", "=", " ", "Text", "(", "'", "x", "'", ",", " ",
             "font_size", "=", "3", "0", ")", ";", " ",
             "b", " ", "=", " ", "Text", "(", "'", "y", "'", ",", " ",
             "font_size", "=", "6", "0", ")">>

SetWidth == Title \o <<".", "set_", "max_width", "(", "9", ")">>

MoveTitle == Title \o <<".", "move_to", "(", "[", "9", ",", " ", "-", "5", ",",
                        " ", "0", "]", ")">>

MoveCircle == <<"c", ".", "move_to", "(", "[", "9", ",", " ", "1", ".", "3", ",",
                " ", "0", "]", ")">>

MoveBad == <<"c", ".", "move_to", "(", "[", "1", ".", "2", ".", "3", ",", " ",
             "0", ",", " ", "0", "]", ")">>

SetFont == Title \o <<".", "set_", "font_size", "(", "4", "8", ")">>

AssignFont == Title \o <<".", "font_size", " ", "=", " ", "7", "2">>

WidthLines == { DeclBig, DeclEmpty, DeclVar, SetWidth }

FontLines == { DeclBig, DeclTwo, SetFont, AssignFont }

PositionLines == { DeclBig, MoveTitle, MoveCircle, MoveBad }

ClassA == <<"class", " ", "A", ":">>

DefF == <<"def", " ", "f", "(", ")", ":">>

Pass == <<"pass">>

OpenParen == <<"x", " ", "=", " ", "(">>

SyntaxLines ==
    { ClassA, DefF, Ind(4, DefF), Ind(4, Pass), OpenParen, Pass, Ind(2, DefF) }

SetFontScaled ==
    Title \o <<".", "set_", "font_size", "(", "1", ".", "2", " ", "*", " ",
               "DEFAULT_FONT_SIZE", ")">>

Scaled == <<"x", " ", "=", " ", "1", ".", "2", " ", "*", " ", "DEFAULT_FONT_SIZE">>

\* x = FRAME_WIDTH - N for the literal N.
WidthLess(N) == <<"x", " ", "=", " ", "FRAME_WIDTH", " ", "-", " ">> \o N

BareWidth == <<"x", " ", "=", " ", "FRAME_WIDTH">>

BareHeight == <<"y", " ", "=", " ", "FRAME_HEIGHT">>

\* The literals N of the lines x = FRAME_WIDTH - N.
WidthOperands == { <<"1">>, <<"2">>, <<"3">>, <<"1", "0">>, <<"1", ".", "5">> }

ApiLines ==
    { SetFontScaled, Scaled, BareWidth, BareHeight }
    \cup { WidthLess(N) : N \in WidthOperands }

\* A class whose method definition lost its indentation (the body kept it).
ScenarioF == <<ClassA, DefF, Ind(8, Pass)>>

\* Text objects and one positioning call for each, in declaration order.
MaxMoves == 3

PlacedNames == << <<"a">>, <<"b">>, <<"c">>, Title >>

Decl(name) == name \o <<" ", "=", " ", "Text", "(", "\"", "x", "\"", ")">>

MoveY(name, y) ==
    name \o <<".", "move_to", "(", "[", "0", ",", " ">> \o y
    \o <<",", " ", "0", "]", ")">>

Heights ==
    { <<"1", ".", "0">>, <<"1", ".", "3">>, <<"0", ".", "9">>, <<"1", ".", "7">>,
      <<"2", ".", "0">>, <<"3", ".", "4">> }

PlacedAt(ys) ==
    [i \in 1..(2 * Len(ys)) |->
        IF i <= Len(ys) THEN Decl(PlacedNames[i])
        ELSE MoveY(PlacedNames[i - Len(ys)], ys[i - Len(ys)])]

Placed == UNION {{PlacedAt(ys) : ys \in [1..k -> Heights]} : k \in 1..MaxMoves}

\* A quoted text of n characters.
RECURSIVE Content(_)
Content(n) ==
    IF n >= 12 THEN <<"current_time">> \o Content(n - 12)
    ELSE IF n >= 1 THEN <<"x">> \o Content(n - 1)
    ELSE <<>>

\* title = Text("<n characters>") and title = Text("<n characters>",
\* font_size=<size>), indented by ind spaces.
SizedDecl(ind, n, size) ==
    Ind(ind, Title \o <<" ", "=", " ", "Text", "(", "\"">> \o Content(n) \o <<"\"">>
             \o (IF size = <<>> THEN <<>>
                 ELSE <<",", " ", "font_size", "=">> \o size) \o <<")">>)

ContentLengths == {1, 20, 21, 40, 41, 60, 61, 75}

FontTexts ==
    { <<>>, <<"2", "8">>, <<"2", "9">>, <<"3", "2">>, <<"3", "3">>, <<"3", "6">>,
      <<"4", "8">> }

Sized ==
    { <<SizedDecl(ind, n, size)>> :
        ind \in {0, 4}, n \in ContentLengths, size \in FontTexts }

\* Waits on the running total in other layouts: Scenario B, two spaces
\* before the minus sign, and a wait after another statement of the line.
WaitDecimal == SelfWait \o <<"5", ".", "0", " ", "-", " ", "current_time", ")">>

WaitWide == SelfWait \o <<"5", " ", " ", "-", " ", "current_time", ")">>

PlayThenWait == <<"self", ".", "play", "(", "x", ")", ";", " ">> \o WaitLit

\* The wait with a comment behind it, and behind an inline guard with a
\* condition of its own.
WaitComment == WaitLit \o <<" ", "#", " ", "x">>

InlineIf == GuardX \o <<" ">> \o WaitLit

WaitShapes ==
    { WaitDecimal, Ind(4, WaitDecimal), WaitWide, PlayThenWait, WaitComment,
      InlineIf }

\* Import lines, among them two wildcard imports run together with the
\* import that should have been on the next line.
ImportNumpy == <<"import", " ", "numpy", " ", "as", " ", "np">>

ManimThenNumpy == ImportStar \o ImportNumpy

NumpyThenNumpy == <<"from", " ", "numpy", " ", "import", " ", "*">> \o ImportNumpy

NumpyThenManim ==
    <<"from", " ", "numpy", " ", "import", " ", "*", "import", " ", "manim">>

ImportLines ==
    { ImportStar, ImportNumpy, ManimThenNumpy, NumpyThenNumpy, NumpyThenManim }

\* Lines under a class header at indentations that are no multiple of 4,
\* with tabs before and inside the statement, and of whitespace alone.
TabInBody == <<" ", " ", " ", " ", "x", "\t", "=", " ", "1">>

IndentLines ==
    { Ind(1, Pass), Ind(2, Pass), Ind(3, Pass), Ind(6, Pass),
      <<"\t">> \o Pass, <<" ", "\t">> \o Pass, <<" ", " ">>, TabInBody }

\* Code indented 2 spaces per level.
TwoPerLevel == <<ClassA, Ind(2, DefF), Ind(4, Pass), Ind(6, Pass)>>

\* A method and, in its body, a function definition without a body.
NestedDef == <<ClassA, Ind(4, DefF), Ind(8, DefF)>>

\* A width call on the object subtitle, below a declaration of title.
SubWidth == <<"sub">> \o SetWidth

OtherObject == { <<DeclBig, SubWidth>>, <<DeclBig, Pass, SubWidth>>,
                 <<DeclBig, SubWidth, SetWidth>> }

\* Programs that parse: a guard whose body is the wait and a further
\* statement, and two nested identical guards with a statement in the
\* body of the outer one.
GuardedBody == <<GuardLit, Ind(4, WaitLit), Ind(4, Pass)>>

NestedGuards == <<GuardX, Ind(4, GuardX), Ind(8, Pass), Ind(4, Pass)>>

\* Every buffer of 1..n lines over a set of lines.
Buffers(lines, n) == UNION {[1..k -> lines] : k \in 1..n}

\* A class header and one or two of the indented lines below it.
Indented == {<<ClassA>> \o b : b \in Buffers(IndentLines, 2)} \cup {TwoPerLevel}

\* A declaration, k other lines and a width call on the declared object.
RECURSIVE Repeat(_, _)
Repeat(line, k) == IF k = 0 THEN <<>> ELSE <<line>> \o Repeat(line, k - 1)

Padded == {<<Title \o <<" ", "=", " ", "Text", "(", "\"", "a", "\"", ")">>>>
           \o Repeat(Pass, k) \o <<SetWidth>> : k \in 0..MaxGap}

Inputs ==
    Buffers(TimingLines, MaxLines) \cup Buffers(WidthLines, MaxLines)
    \cup Buffers(FontLines, MaxLines) \cup Buffers(PositionLines, MaxLines)
    \cup Buffers(SyntaxLines, MaxLines) \cup Padded
    \cup Buffers(ApiLines, 1) \cup {ScenarioF} \cup Placed \cup Sized
    \cup Buffers(WaitShapes, 1) \cup Buffers(ImportLines, 2)
    \cup Indented \cup {NestedDef} \cup OtherObject
    \cup {GuardedBody, NestedGuards}

\* ------------------------------------------------------ the state machine
(***************************************************************************)
(* One call of _clean_code, step by step, and a second call on the first   *)
(* call's result.                                                          *)
(*   raw_code  the argument of the call                                    *)
(*   code      the local variable code                                     *)
(*   pc        the next step; "done" after return, "raised" when an        *)
(*             exception left the call                                     *)
(*   pre       the buffer the last step started from                       *)
(*   trace     the passes run so far in this call, in order                *)
(*   run       1 for the first call, 2 for the call on its result          *)
(*   first     the result of the first call (the empty sequence before)    *)
(* Two calls running at the same time (specification Interleaved):         *)
(*   calls             the local variables of each call                    *)
(*   text_y_positions  the ledger of each call frame                       *)
(* The combined multi-scene program (specification Combined):              *)
(*   combining         the local variables of _create_combined_scene_code  *)
(***************************************************************************)
VARIABLES raw_code, code, pc, pre, trace, run, first, calls, text_y_positions,
          combining

vars == <<raw_code, code, pc, pre, trace, run, first, calls, text_y_positions,
          combining>>

Init ==
    /\ raw_code \in Inputs
    /\ code = raw_code
    /\ pc = "strip"
    /\ pre = raw_code
    /\ trace = <<>>
    /\ run = 1
    /\ first = <<>>
    /\ calls = <<>>
    /\ text_y_positions = <<>>
    /\ combining = <<>>

\* A step of the call: from position at, the buffer becomes out, the pass
\* is recorded under name, and control moves to next.
Step(at, name, out, next) ==
    /\ pc = at
    /\ pre' = code
    /\ code' = out
    /\ trace' = Append(trace, name)
    /\ pc' = next
    /\ UNCHANGED <<raw_code, run, first, calls, text_y_positions, combining>>

\* Lines 409-420.
StripFences == Step("strip", "Unfence", Unfence(raw_code), "ensure_import")

\* Lines 422-424.
AddImport == Step("ensure_import", "EnsureImport", EnsureImport(code), "fix_imports")

\* Line 427.
FixImports ==
    Step("fix_imports", "ImportNormalizer", FixImportStatements(code), "api")

\* The first migration pass handing its buffer straight to the timing repair,
\* with the indentation pass of line 433 left out.
FixApi_SkipIndent ==
    Step("api", "APIMigrator", FixModernManimApi(code), "timing")

\* Line 430.
FixApi == Step("api", "APIMigrator", FixModernManimApi(code), "indent")

\* Line 433.
Normalize ==
    Step("indent", "IndentationNormalizer", NormalizeIndentation(code), "timing")

\* Line 558.
FixTiming == Step("timing", "TimingRepairer", FixTimingCalculations(code), "dedup")

\* Line 561.
Dedup ==
    Step("dedup", "ConditionalDeduplicator", FixRedundantConditionals(code), "layout")

\* Line 564: float() may raise ValueError, which nothing catches.
LayoutStep(r) ==
    IF r.ok THEN Step("layout", "LayoutEnforcer", r.lines, "api2")
    ELSE Step("layout", "LayoutEnforcer", code, "raised")

Layout == pc = "layout" /\ LayoutStep(FixTextOverflowAndSizing(code))

\* Line 567.
FixApiAgain == Step("api2", "APIMigrator", FixModernManimApi(code), "compile")

\* Lines 569-601 and 436-438.
Validate == Step("compile", "SyntaxValidator", TryCompile(code), "done")

\* rewrite(rewrite(x)): the result of the first call is the argument of a
\* second call.
Again ==
    /\ pc = "done"
    /\ run = 1
    /\ raw_code' = code
    /\ code' = code
    /\ pre' = code
    /\ first' = code
    /\ run' = 2
    /\ trace' = <<>>
    /\ pc' = "strip"
    /\ UNCHANGED <<calls, text_y_positions, combining>>

Next ==
    \/ StripFences
    \/ AddImport
    \/ FixImports
    \/ FixApi
    \/ Normalize
    \/ FixTiming
    \/ Dedup
    \/ Layout
    \/ FixApiAgain
    \/ Validate
    \/ Again

Spec == Init /\ [][Next]_vars

\* ------------------------------------------------- two calls at a time
(***************************************************************************)
(* Two calls of _clean_code on different buffers, their steps interleaved  *)
(* in any order.  The passes before and after the layout pass are          *)
(* functions of their argument and take one step each; the layout pass     *)
(* takes one step for its first scan and one step for every iteration of   *)
(* the loop of its second scan, which reads and appends to the ledger.     *)
(***************************************************************************)
Runs == {1, 2}

\* The buffers of the two calls.
MovesNear == PlacedAt(<< <<"1", ".", "0">>, <<"1", ".", "3">> >>)

MovesThree ==
    PlacedAt(<< <<"1", ".", "7">>, <<"1", ".", "0">>, <<"0", ".", "9">> >>)

PairInputs == { MovesNear, MovesThree, <<DeclBig, MoveTitle>>, <<MoveBad>>,
                <<WaitLit>>, <<ClassA, Ind(2, DefF)>> }

\* The ledger kept in one place for every call, as an attribute of the
\* generator object would be.
Frame_Shared(r) == 1

\* Lines 697-698: the registry and the ledger are local variables, so each
\* call reads and writes the ones of its own frame.
Frame(r) == r

\* Lines 407-438 and 555-601 as one function of the argument: [ok, code],
\* ok FALSE when the call raised.
BeforeLayout(raw) ==
    FixRedundantConditionals(FixTimingCalculations(NormalizeIndentation(
        FixModernManimApi(FixImportStatements(EnsureImport(Unfence(raw)))))))

AfterLayoutOf(r) ==
    IF r.ok THEN [ok |-> TRUE, code |-> TryCompile(FixModernManimApi(r.lines))]
    ELSE [ok |-> FALSE, code |-> <<>>]

CleanCode(raw) == AfterLayoutOf(FixTextOverflowAndSizing(BeforeLayout(raw)))

\* Lines 773-829: one iteration of the loop of the second scan on a line,
\* with the registry and the ledger: [ok, line, ledger].
Scan2IterText(line, ledger, obj_name, x_pos, adjusted_y) ==
    [ok |-> TRUE, line |-> MoveSub(line, obj_name, x_pos, adjusted_y),
     ledger |-> Append(ledger, adjusted_y)]

Scan2IterClamped(line, objs, ledger, obj_name, x_pos, y_pos) ==
    IF obj_name \in objs
    THEN Scan2IterText(line, ledger, obj_name, x_pos, AdjustY(y_pos, ledger))
    ELSE [ok |-> TRUE, line |-> line, ledger |-> ledger]

Scan2IterCoords(line, objs, ledger, obj_name, xt, yt) ==
    IF ~FloatOK(xt) \/ ~FloatOK(yt)
    THEN [ok |-> FALSE, line |-> line, ledger |-> ledger]
    ELSE Scan2IterClamped(line, objs, ledger, obj_name,
                          Clamp(FloatVal(xt), XLimit), Clamp(FloatVal(yt), YLimit))

Scan2IterMatch(line, objs, ledger, m) ==
    IF m = <<>> THEN [ok |-> TRUE, line |-> line, ledger |-> ledger]
    ELSE Scan2IterCoords(line, objs, ledger,
                         Group(MoveToPat, line, m, 1),
                         Group(MoveToPat, line, m, 2),
                         Group(MoveToPat, line, m, 3))

Scan2Iter(line, objs, ledger) ==
    Scan2IterMatch(line, objs, ledger, ReSearch(MoveToPat, line))

InitInterleaved ==
    /\ \E a \in PairInputs, b \in PairInputs :
          /\ a # b
          /\ calls = [r \in Runs |->
                 [raw_code |-> IF r = 1 THEN a ELSE b,
                  code |-> IF r = 1 THEN a ELSE b,
                  pc |-> "strip", fixed_lines |-> <<>>, final_lines |-> <<>>,
                  i |-> 1, text_objects |-> {}, overlapped |-> FALSE]]
    /\ text_y_positions = [r \in Runs |-> <<>>]
    /\ raw_code = <<>>
    /\ code = <<>>
    /\ pc = "interleaved"
    /\ pre = <<>>
    /\ trace = <<>>
    /\ run = 0
    /\ first = <<>>
    /\ combining = <<>>

\* A pass of call r that is a function of the buffer.
CallStep(r, at, out, next) ==
    /\ calls[r].pc = at
    /\ calls' = [calls EXCEPT ![r].code = out, ![r].pc = next]
    /\ UNCHANGED <<text_y_positions, raw_code, code, pc, pre, trace, run, first,
                   combining>>

CallStripFences(r) ==
    CallStep(r, "strip", Unfence(calls[r].raw_code), "ensure_import")

CallAddImport(r) ==
    CallStep(r, "ensure_import", EnsureImport(calls[r].code), "fix_imports")

CallFixImports(r) ==
    CallStep(r, "fix_imports", FixImportStatements(calls[r].code), "api")

CallFixApi(r) == CallStep(r, "api", FixModernManimApi(calls[r].code), "indent")

CallNormalize(r) ==
    CallStep(r, "indent", NormalizeIndentation(calls[r].code), "timing")

CallFixTiming(r) ==
    CallStep(r, "timing", FixTimingCalculations(calls[r].code), "dedup")

CallDedup(r) ==
    CallStep(r, "dedup", FixRedundantConditionals(calls[r].code), "layout")

\* Lines 694-770: the registry and the ledger are created and the first
\* scan runs.
CallScan1With(r, s1) ==
    /\ calls' = [calls EXCEPT ![r].fixed_lines = s1.lines,
                              ![r].text_objects = s1.objs,
                              ![r].final_lines = <<>>,
                              ![r].i = 1,
                              ![r].pc = "scan2"]
    /\ text_y_positions' = [text_y_positions EXCEPT ![Frame(r)] = <<>>]
    /\ UNCHANGED <<raw_code, code, pc, pre, trace, run, first, combining>>

CallScan1(r) ==
    /\ calls[r].pc = "layout"
    /\ CallScan1With(r, Scan1From(calls[r].code, 1))

\* Lines 773-829: one iteration of the second scan; overlapped records that
\* the other call was inside its second scan at that moment.
CallScan2With(r, it) ==
    /\ calls' = [calls EXCEPT
           ![r].pc = IF it.ok THEN "scan2" ELSE "raised",
           ![r].final_lines = IF it.ok THEN Append(@, it.line) ELSE @,
           ![r].i = @ + 1,
           ![r].overlapped = @ \/ \E o \in Runs \ {r} : calls[o].pc = "scan2"]
    /\ text_y_positions' = [text_y_positions EXCEPT ![Frame(r)] = it.ledger]
    /\ UNCHANGED <<raw_code, code, pc, pre, trace, run, first, combining>>

CallScan2(r) ==
    /\ calls[r].pc = "scan2"
    /\ calls[r].i <= Len(calls[r].fixed_lines)
    /\ CallScan2With(r, Scan2Iter(calls[r].fixed_lines[calls[r].i],
                                  calls[r].text_objects,
                                  text_y_positions[Frame(r)]))

\* Line 831.
CallLayoutReturn(r) ==
    /\ calls[r].i > Len(calls[r].fixed_lines)
    /\ CallStep(r, "scan2", calls[r].final_lines, "api2")

CallFixApiAgain(r) ==
    CallStep(r, "api2", FixModernManimApi(calls[r].code), "compile")

CallValidate(r) == CallStep(r, "compile", TryCompile(calls[r].code), "done")

NextInterleaved ==
    \E r \in Runs :
        \/ CallStripFences(r)
        \/ CallAddImport(r)
        \/ CallFixImports(r)
        \/ CallFixApi(r)
        \/ CallNormalize(r)
        \/ CallFixTiming(r)
        \/ CallDedup(r)
        \/ CallScan1(r)
        \/ CallScan2(r)
        \/ CallLayoutReturn(r)
        \/ CallFixApiAgain(r)
        \/ CallValidate(r)

Interleaved == InitInterleaved /\ [][NextInterleaved]_vars

\* ------------------------------------------- the combined scene program
(***************************************************************************)
(* _create_combined_scene_code (multi_scene_processor.py, 364-431).  A     *)
(* scene is represented by whether its context has math objects, the only  *)
(* thing about it the import line depends on; of the template, the lines   *)
(* kept are the import line, the empty line, the class header, the header  *)
(* of construct and the header of every scene method.                      *)
(***************************************************************************)
MaxScenes == 5

SceneLists == UNION {[1..n -> BOOLEAN] : n \in 1..MaxScenes}

\* sorted(imports_needed): the strings in ascending order; "from ..." sorts
\* before "import ...".
SortedImports(imports) ==
    CHOOSE q \in [1..Cardinality(imports) -> imports] :
        /\ \A a \in 1..Len(q), b \in 1..Len(q) : a # b => q[a] # q[b]
        /\ \A a \in 1..Len(q), b \in 1..Len(q) :
               (a < b) => ~(Head(q[a]) = "import" /\ Head(q[b]) = "from")

\* "".join(strings): the strings one behind the other, nothing between.
RECURSIVE JoinEmpty(_)
JoinEmpty(strings) ==
    IF strings = <<>> THEN <<>> ELSE Head(strings) \o JoinEmpty(Tail(strings))

\* Lines 383 and 390: the header of the method of scene i.
SceneMethod(i) ==
    Spaces(4) \o <<"def", " ", "scene_">> \o IntText(i) \o <<"(", "self", ")", ":">>

ClassCombined == <<"class", " ", "CombinedVideo", "(", "Scene", ")", ":">>

DefConstruct == Spaces(4) \o <<"def", " ", "construct", "(", "self", ")", ":">>

\* Lines 401-429: the template filled in.
CombinedTemplate(imports_needed, scene_methods) ==
    <<JoinEmpty(SortedImports(imports_needed)), <<>>, ClassCombined, DefConstruct>>
    \o scene_methods

\* Lines 377-379.
InitCombined ==
    /\ \E contexts \in SceneLists :
          combining = [contexts |-> contexts, i |-> 1,
                       imports_needed |-> {ImportStar}, scene_methods |-> <<>>,
                       combined_code |-> <<>>, returned |-> FALSE]
    /\ calls = <<>>
    /\ text_y_positions = <<>>
    /\ raw_code = <<>>
    /\ code = <<>>
    /\ pc = "combining"
    /\ pre = <<>>
    /\ trace = <<>>
    /\ run = 0
    /\ first = <<>>

\* Lines 381-399: one iteration of the loop over the scenes.
CollectScene ==
    /\ ~combining.returned
    /\ combining.i <= Len(combining.contexts)
    /\ combining' = [combining EXCEPT
           !.scene_methods = Append(@, SceneMethod(combining.i)),
           !.imports_needed = IF combining.contexts[combining.i]
                              THEN @ \cup {ImportNumpy} ELSE @,
           !.i = @ + 1]
    /\ UNCHANGED <<raw_code, code, pc, pre, trace, run, first, calls,
                   text_y_positions>>

\* Lines 401-431.
BuildCombined ==
    /\ ~combining.returned
    /\ combining.i > Len(combining.contexts)
    /\ combining' = [combining EXCEPT
           !.combined_code = CombinedTemplate(combining.imports_needed,
                                              combining.scene_methods),
           !.returned = TRUE]
    /\ UNCHANGED <<raw_code, code, pc, pre, trace, run, first, calls,
                   text_y_positions>>

NextCombined == CollectScene \/ BuildCombined

Combined == InitCombined /\ [][NextCombined]_vars

\* ------------------------------------------------------------- the claims

\* The result of a call that returned.
Returned == pc = "done"

\* C1: applying the repair pipeline to its own result changes nothing:
\* the second call returns the text it was given.
C1_Idempotent == (Returned /\ run = 2) => code = first

\* C2: the text returned by the syntax-validation step parses, or is the
\* text on which the parse was attempted (pre, the buffer the last step
\* started from).
C2_ParsesOrUnchanged == Returned => (Parses(code) \/ code = pre)

\* C3: no pass aborts the call: no exception leaves _clean_code.
C3_NeverRaises == pc # "raised"

\* A wait whose duration is a subtraction of a variable:
\* self.wait(<expr> - <variable>), with any spacing around the minus sign.
VarWaitPat ==
    << Lit("self"), Lit("."), Lit("wait"), Lit("("), El(AnyTok \ {")"}, 1, Inf, 1),
       El(Space, 0, Inf, 0), Lit("-"), El(Space, 0, Inf, 0), El(Words, 1, Inf, 2),
       Lit(")") >>

\* The guard that belongs to the wait matched by m: if <expr> > <variable>:
GuardOf(line, m) ==
    <<"if", " ">> \o Strip(Group(VarWaitPat, line, m, 1)) \o <<" ", ">", " ">>
    \o Group(VarWaitPat, line, m, 2) \o <<":">>

\* The indices of the waits of buf that the line before does not guard.
UnguardedWaits(buf) ==
    {i \in 1..Len(buf) :
        LET m == ReSearch(VarWaitPat, buf[i])
        IN  /\ m # <<>>
            /\ ~(i > 1 /\ Strip(buf[i - 1]) = GuardOf(buf[i], m))}

\* C4: in the result every wait on a variable subtraction directly follows
\* its strictly-greater-than guard.
C4_EveryWaitGuarded == Returned => UnguardedWaits(code) = {}

\* The positioning calls of buf with literal coordinates outside the safe
\* viewport.
OutOfViewport(buf) ==
    {i \in 1..Len(buf) :
        LET m == ReSearch(MoveToPat, buf[i])
            xt == Group(MoveToPat, buf[i], m, 2)
            yt == Group(MoveToPat, buf[i], m, 3)
        IN  /\ m # <<>>
            /\ FloatOK(xt) /\ FloatOK(yt)
            /\ (Abs(FloatVal(xt)) > XLimit \/ Abs(FloatVal(yt)) > YLimit)}

\* C5: in the result every positioning call with literal coordinates has
\* x in [-6, 6] and y in [-3.5, 3.5], whatever the object.
C5_AllCoordinatesClamped == Returned => OutOfViewport(code) = {}

\* The pass that has just run is LayoutEnforcer, and it returned.
AfterLayout == pc = "api2"

\* The lines of buf after index i, at most n of them, that hold a width
\* call on the object name.
WidthCalls(buf, i, n, name) ==
    {j \in (i + 1)..Min(i + n, Len(buf)) :
        Contains(buf[j], name \o <<".", "set_", "max_width", "(">>)}

\* The declarations of buf: the indices of the lines that assign Text(...)
\* or MathTex(...) to a name.
Declarations(buf) == {i \in 1..Len(buf) : ReSearch(TextDeclPat, buf[i]) # <<>>}

DeclaredName(line) == Group(TextDeclPat, line, ReSearch(TextDeclPat, line), 1)

\* C6: after LayoutEnforcer every text declaration is followed, within 10
\* lines, by a width call on the declared name.
C6_WidthCallFollows ==
    AfterLayout =>
        \A i \in Declarations(code) :
            WidthCalls(code, i, LookAhead, DeclaredName(code[i])) # {}

\* Every font-size literal of a line: the numbers of font_size = <n>, in
\* constructor arguments and in attribute assignments.
RECURSIVE FontSizesFrom(_, _)
FontSizesFrom(line, from) ==
    LET m == ReSearchFrom(FontSizePat, line, from)
    IN  IF m = <<>> THEN {}
        ELSE {ParseInt(Group(FontSizePat, line, m, 1))}
             \cup FontSizesFrom(line, MEnd(m))

FontSizes(buf) == UNION {FontSizesFrom(buf[i], 1) : i \in 1..Len(buf)}

\* C7: no font-size literal of the result exceeds 40.
C7_FontCeiling == Returned => \A n \in FontSizes(code) : n <= MaxFontSize

\* C8: LayoutEnforcer adds no width call for an object that already has one
\* after its declaration, however far below: such an object has as many
\* width calls after the pass as before, and so exactly one when it had one.
C8_NoSecondWidthCall ==
    AfterLayout =>
        \A i \in Declarations(pre) :
            LET name == DeclaredName(pre[i])
                before == WidthCalls(pre, i, Len(pre), name)
                j == CHOOSE k \in Declarations(code) :
                         /\ DeclaredName(code[k]) = name
                         /\ Cardinality({d \in Declarations(code) : d < k})
                            = Cardinality({d \in Declarations(pre) : d < i})
            IN  before # {} =>
                    Cardinality(WidthCalls(code, j, Len(code), name))
                    = Cardinality(before)

\* Two consecutive lines of buf are the same if-guard.
AdjacentDuplicateGuards(buf) ==
    {i \in 1..(Len(buf) - 1) :
        buf[i] = buf[i + 1] /\ StartsWith(Strip(buf[i]), IfSp)}

\* C9: neither the result of ConditionalDeduplicator nor the result of the
\* call holds two consecutive identical if-guards.
C9_NoAdjacentDuplicateGuards ==
    (pc = "layout" \/ Returned) => AdjacentDuplicateGuards(code) = {}

\* The passes the design names, in the order the trace holds them (the
\* fence removal and the added import belong to none of them).
StageNames ==
    {"ImportNormalizer", "APIMigrator", "TimingRepairer", "ConditionalDeduplicator",
     "LayoutEnforcer", "IndentationNormalizer", "SyntaxValidator"}

InStage(n) == n \in StageNames

Stages(t) == SelectSeq(t, InStage)

IsPrefix(a, b) == Len(a) <= Len(b) /\ a = SubSeq(b, 1, Len(a))

ClaimedOrder ==
    <<"ImportNormalizer", "APIMigrator", "TimingRepairer", "ConditionalDeduplicator",
      "LayoutEnforcer", "APIMigrator", "IndentationNormalizer", "SyntaxValidator">>

CodeOrder ==
    <<"ImportNormalizer", "APIMigrator", "IndentationNormalizer", "TimingRepairer",
      "ConditionalDeduplicator", "LayoutEnforcer", "APIMigrator", "SyntaxValidator">>

UnindentedMethods(buf) ==
    {i \in 2..Len(buf) :
        /\ StartsWith(buf[i], DefSp)
        /\ StartsWith(Strip(buf[i - 1]), ClassSp)
        /\ EndsWith(Strip(buf[i - 1]), <<":">>)}

\* buf with each such definition line one level deeper.
Reindented(buf) ==
    [i \in 1..Len(buf) |->
        IF i \in UnindentedMethods(buf) THEN Spaces(IndentUnit) \o buf[i]
        ELSE buf[i]]

\* C11 (Scenario F): when the parse fails because of a definition at column
\* 0 directly after a class header (the buffer parses once that line is one
\* level deeper), the validator returns the buffer with that line one level
\* deeper, and the returned buffer parses.
C11_ScenarioF ==
    (/\ Returned
     /\ ~Parses(pre)
     /\ UnindentedMethods(pre) # {}
     /\ Parses(Reindented(pre))) =>
        (code = Reindented(pre) /\ Parses(code))

\* ------------------------------------------------------------------ C12
\* The first APIMigrator pass has just run.
AfterApi == pc = "indent"

\* C12: APIMigrator is idempotent: a second pass over the result of the
\* first changes nothing.
C12_ApiIdempotent == AfterApi => FixModernManimApi(code) = code

\* ---------------------------------------------------------- C13 and C14
\* The names that buf declares as text objects.
TextNames(buf) == {DeclaredName(buf[i]) : i \in Declarations(buf)}

\* The y coordinates, in hundredths and in line order, of the positioning
\* calls of buf on the objects of names.
RECURSIVE PlacedYFrom(_, _, _)
PlacedYFrom(buf, i, names) ==
    IF i > Len(buf) THEN <<>>
    ELSE LET m == ReSearch(MoveToPat, buf[i])
         IN  (IF m # <<>> /\ Group(MoveToPat, buf[i], m, 1) \in names
              THEN <<FloatVal(Group(MoveToPat, buf[i], m, 3))>>
              ELSE <<>>) \o PlacedYFrom(buf, i + 1, names)

\* The candidate y of each text object: the y given to LayoutEnforcer,
\* clamped to the viewport.
Candidates ==
    LET ys == PlacedYFrom(pre, 1, TextNames(pre))
    IN  [k \in 1..Len(ys) |-> Clamp(ys[k], YLimit)]

\* The final y of each text object, as LayoutEnforcer wrote it.  The ledger
\* met by the k-th object is the final y of the objects before it.
Finals == PlacedYFrom(code, 1, TextNames(pre))

\* The ledger entries strictly within the minimum spacing of y.
Neighbours(y, ledger) ==
    {j \in 1..Len(ledger) : Abs(y - ledger[j]) < MinSpacing}

FirstNeighbour(y, ledger) ==
    ledger[CHOOSE j \in Neighbours(y, ledger) :
               \A n \in Neighbours(y, ledger) : j <= n]

\* C13: a text object whose clamped y lies strictly within 0.8 of a ledger
\* entry ends at the first such entry's y plus 0.8 when it was above that
\* entry and minus 0.8 otherwise, clamped to the viewport; no later entry
\* is consulted, and the ledger holds the final y of the objects before.
C13_FirstNeighbourOnly ==
    AfterLayout =>
        /\ Len(Finals) = Len(Candidates)
        /\ \A k \in 1..Len(Finals) :
               Neighbours(Candidates[k], SubSeq(Finals, 1, k - 1)) # {} =>
                   Finals[k] =
                       Clamp(IF Candidates[k] >
                                   FirstNeighbour(Candidates[k], SubSeq(Finals, 1, k - 1))
                             THEN FirstNeighbour(Candidates[k], SubSeq(Finals, 1, k - 1))
                                  + MinSpacing
                             ELSE FirstNeighbour(Candidates[k], SubSeq(Finals, 1, k - 1))
                                  - MinSpacing, YLimit)

\* The text objects that LayoutEnforcer displaced: the final y is not the
\* candidate y.
Displaced == {k \in 1..Len(Finals) : Finals[k] # Candidates[k]}

ContentTier(n) == IF n > 60 THEN 9 ELSE IF n > 40 THEN 10 ELSE IF n > 20 THEN 11 ELSE 12

FontTier(size) == IF size > 32 THEN 9 ELSE IF size > 28 THEN 10 ELSE 12

\* The declarations of buf that get a width call: no width call on the
\* declared name in the 10 lines that follow, and a non-empty quoted text.
Unconstrained(buf) ==
    {i \in Declarations(buf) :
        /\ WidthCalls(buf, i, LookAhead, DeclaredName(buf[i])) = {}
        /\ TextLength(buf[i]) > 0}

\* The width call the claim describes for the declaration at line i of buf.
ClaimedWidthCall(buf, i) ==
    Spaces(LeadLen(buf[i])) \o DeclaredName(buf[i])
    \o <<".", "set_", "max_width", "(">>
    \o IntText(Min(ContentTier(TextLength(buf[i])),
                   FontTier(Min(FontSizeOf(buf[i]), MaxFontSize))))
    \o <<")">>

AfterTiming == pc = "dedup"

WaitTail == <<" ", "-", " ", "current_time", ")">>

\* The text L of a line <indent>self.wait(L - current_time), and the empty
\* text for a line of any other shape.
WaitLiteral(line) ==
    LET body == LStrip(line)
    IN  IF /\ StartsWith(body, SelfWait)
           /\ EndsWith(body, WaitTail)
           /\ Len(body) > Len(SelfWait) + Len(WaitTail)
        THEN Slice(body, Len(SelfWait) + 1, Len(body) - Len(WaitTail))
        ELSE <<>>

\* The line is <indent>self.wait(L - current_time) with L a numeric literal.
ExactWait(line) ==
    /\ WaitLiteral(line) # <<>>
    /\ Head(WaitLiteral(line)) # "-"
    /\ FloatOK(WaitLiteral(line))

\* The line is such a wait and the line before it is its guard.
Guarded(buf, i) ==
    /\ ExactWait(buf[i])
    /\ i > 1
    /\ Strip(buf[i - 1]) =
           <<"if", " ">> \o WaitLiteral(buf[i]) \o <<" ", ">", " ", "current_time", ":">>

\* What the claim lets a line become: the guard at the line's own leading
\* whitespace and the wait four spaces deeper, or the line itself.
ClaimedTiming(line) ==
    IF ExactWait(line)
    THEN << Slice(line, 1, LeadLen(line)) \o <<"if", " ">> \o WaitLiteral(line)
                \o <<" ", ">", " ", "current_time", ":">>,
            Slice(line, 1, LeadLen(line)) \o Spaces(IndentUnit) \o LStrip(line) >>
    ELSE <<line>>

\* C16: TimingRepairer replaces each un-guarded line
\* <indent>self.wait(L - current_time) by the guard and the indented wait,
\* and emits every other line untouched.
C16_ExactRewrite ==
    (AfterTiming /\ \A i \in 1..Len(pre) : ~Guarded(pre, i)) =>
        code = Flatten([i \in 1..Len(pre) |-> ClaimedTiming(pre[i])])

\* ------------------------------------------------------------------ C17
\* ConditionalDeduplicator has just run: pre is its input, code its output.
AfterDedup == pc = "layout"

IsGuard(line) == StartsWith(LStrip(line), IfSp)

\* The lines the claim allows to be dropped: an if-guard identical, leading
\* whitespace included, to the line immediately before it.
ExactDuplicates(buf) ==
    {i \in 2..Len(buf) : IsGuard(buf[i]) /\ buf[i] = buf[i - 1]}

\* buf without the lines whose index is in drop.
RECURSIVE KeepFrom(_, _, _)
KeepFrom(buf, i, drop) ==
    IF i > Len(buf) THEN <<>>
    ELSE (IF i \in drop THEN <<>> ELSE <<buf[i]>>) \o KeepFrom(buf, i + 1, drop)

\* C17: the output of ConditionalDeduplicator is its input without some of
\* the guards that are character-for-character identical to the line
\* before them; every other line, and the first guard of each pair, stays.
C17_OnlyExactDuplicatesDropped ==
    AfterDedup =>
        \E drop \in SUBSET ExactDuplicates(pre) : code = KeepFrom(pre, 1, drop)

\* ------------------------------------------------------------------ C18
\* Lines 534 and 538: the literal frame width and frame height.
FrameWidth == 14

FrameHeight == 8

Assign(name) == <<name, " ", "=", " ">>

\* The arithmetic values, in hundredths, a text can stand for: a numeric
\* literal, or a difference of two numeric literals.
ValuesOf(t) ==
    LET k == Find(t, <<" ", "-", " ">>, 1)
    IN  IF FloatOK(t) THEN {FloatVal(t)}
        ELSE IF /\ k # 0
                /\ FloatOK(Slice(t, 1, k - 1))
                /\ FloatOK(From(t, k + 3))
             THEN {FloatVal(Slice(t, 1, k - 1)) - FloatVal(From(t, k + 3))}
             ELSE {}

\* C18: the first APIMigrator pass turns x = FRAME_WIDTH - N, for a numeric
\* literal N, into x = <text of value 14 - N>, x = FRAME_WIDTH into x = 14
\* and y = FRAME_HEIGHT into y = 8.
C18_FrameArithmetic ==
    AfterApi =>
        \A i \in 1..Len(pre) :
            /\ (/\ StartsWith(pre[i], WidthLess(<<>>))
                /\ FloatOK(From(pre[i], Len(WidthLess(<<>>)) + 1))) =>
                   /\ StartsWith(code[i], Assign("x"))
                   /\ ValuesOf(From(code[i], Len(Assign("x")) + 1)) =
                          {Scale * FrameWidth
                           - FloatVal(From(pre[i], Len(WidthLess(<<>>)) + 1))}
            /\ pre[i] = BareWidth => code[i] = Assign("x") \o IntText(FrameWidth)
            /\ pre[i] = BareHeight => code[i] = Assign("y") \o IntText(FrameHeight)

\* ------------------------------------------------------------------ C19
\* The values, in hundredths, of the numeric literals of a line: the
\* maximal runs of digits and dots that float() accepts.
LiteralValues(line) ==
    {FloatVal(Slice(line, i, j)) : <<i, j>> \in
        {p \in (1..Len(line)) \X (1..Len(line)) :
            /\ p[1] <= p[2]
            /\ \A n \in p[1]..p[2] : line[n] \in Digits \cup {"."}
            /\ (p[1] = 1 \/ line[p[1] - 1] \notin Digits \cup {"."})
            /\ (p[2] = Len(line) \/ line[p[2] + 1] \notin Digits \cup {"."})
            /\ FloatOK(Slice(line, p[1], p[2]))}}

\* The factor k of the line of the input that holds k * DEFAULT_FONT_SIZE.
ScaleFactor(line) ==
    FloatVal(Group(TimesDefaultPat, line, ReSearch(TimesDefaultPat, line), 1))

\* C19 (Scenario D): when the input is one line holding k *
\* DEFAULT_FONT_SIZE, as a value or as the argument of set_font_size, the
\* result holds the literal product of k and 24 and nowhere the name
\* DEFAULT_FONT_SIZE.
C19_LiteralProduct ==
    (Returned /\ run = 1 /\ raw_code \in {<<Scaled>>, <<SetFontScaled>>}) =>
        /\ \E i \in 1..Len(code) :
               ScaleFactor(raw_code[1]) * DefaultFontSize \in LiteralValues(code[i])
        /\ \A i \in 1..Len(code) : ~Contains(code[i], <<"DEFAULT_FONT_SIZE">>)

\* ------------------------------------------------------------------ C20
\* ImportNormalizer has just run (the import is ensured at lines 422-424,
\* the lines are split at 427): code is its output.
AfterImports == pc = "api"

\* The line is an import of the manim module.
ImportsManim(line) ==
    \/ StartsWith(LStrip(line), <<"from", " ", "manim", " ", "import", " ">>)
    \/ LStrip(line) = <<"import", " ", "manim">>
    \/ StartsWith(LStrip(line), <<"import", " ", "manim", " ">>)

\* The line holds a wildcard import immediately followed by an import.
RunTogether(line) == Contains(line, <<"import", " ", "*", "import">>)

\* C20: after import normalization some line imports manim, no line holds
\* a wildcard import run together with a second import, and a buffer that
\* had no such line is returned as it was.
C20_ImportsNormalized ==
    AfterImports =>
        /\ \E i \in 1..Len(code) : ImportsManim(code[i])
        /\ \A i \in 1..Len(code) : ~RunTogether(code[i])
        /\ (\A i \in 1..Len(pre) : ~RunTogether(pre[i])) => code = pre

\* ------------------------------------------------------------------ C21
\* IndentationNormalizer has just run (line 433): code is its output.
AfterIndent == pc = "timing"

\* The width of the leading whitespace of s, from column col on, with
\* every tab reaching the next column that is a multiple of 4.
RECURSIVE LeadWidthAt(_, _)
LeadWidthAt(s, col) ==
    IF s = <<>> \/ Head(s) \notin Space THEN col
    ELSE IF Head(s) = "\t"
         THEN LeadWidthAt(Tail(s), col + TabSize - (col % TabSize))
         ELSE LeadWidthAt(Tail(s), col + 1)

\* w / 4 rounded to the nearest integer, a tie rounded up.
RoundedLevel(w) ==
    IF 2 * (w % IndentUnit) >= IndentUnit
    THEN w \div IndentUnit + 1
    ELSE w \div IndentUnit

\* The line the claim describes: the text after the leading whitespace as
\* it was, behind 4 * round(w / 4) spaces; the empty line for whitespace.
ClaimedIndent(line) ==
    IF \A n \in 1..Len(line) : line[n] \in Space THEN <<>>
    ELSE Spaces(IndentUnit * RoundedLevel(LeadWidthAt(line, 0))) \o LStrip(line)

\* C21: IndentationNormalizer emits, for every line, the text after the
\* leading whitespace unchanged behind 4 * round(w / 4) spaces, w the
\* tab-expanded width of the leading whitespace, and the empty line for a
\* line of whitespace alone.
C21_IndentRounded ==
    AfterIndent =>
        /\ Len(code) = Len(pre)
        /\ \A i \in 1..Len(pre) : code[i] = ClaimedIndent(pre[i])

\* ------------------------------------------------------------------ C22
\* C22: of two calls on different buffers whose steps are interleaved in
\* any order, each returns the text it returns when run alone, and raises
\* exactly when it raises alone.
C22_RunsIndependent ==
    \A r \in Runs :
        /\ calls[r].pc = "done" =>
               /\ CleanCode(calls[r].raw_code).ok
               /\ calls[r].code = CleanCode(calls[r].raw_code).code
        /\ calls[r].pc = "raised" => ~CleanCode(calls[r].raw_code).ok

\* Both calls returned, each had the other inside its second scan while it
\* was in its own, and each kept a ledger of its own with an entry.
C22_Witness ==
    /\ \A r \in Runs : calls[r].pc = "done" /\ calls[r].overlapped
    /\ calls[1].raw_code = MovesNear
    /\ calls[2].raw_code = MovesThree
    /\ Len(text_y_positions[1]) = 2
    /\ Len(text_y_positions[2]) = 3

\* ------------------------------------------------------------------ C23
\* The buffer ends with a guard at column 0 and, one level below it, the
\* wait it guards.
EndsGuarded(buf) ==
    /\ Len(buf) >= 2
    /\ buf[Len(buf) - 1] = GuardLit
    /\ buf[Len(buf)] = Ind(IndentUnit, WaitLit)

\* C23: when the input already holds the guard of a wait, with the wait one
\* level below it, the output holds one guard line for that wait followed
\* by the wait exactly one level (4 spaces) deeper than the guard.
C23_GuardedStaysGuarded ==
    (Returned /\ run = 1 /\ EndsGuarded(raw_code)) =>
        /\ EndsGuarded(code)
        /\ Len(code) > 2 => Strip(code[Len(code) - 2]) # GuardLit

\* ------------------------------------------------------------------ C24
\* The line is a def or class header.
IsHeader(line) ==
    StartsWith(Strip(line), DefSp) \/ StartsWith(Strip(line), ClassSp)

\* The line before line i of the buffer opens a block.
AfterOpener(buf, i) == i > 1 /\ EndsWith(Strip(buf[i - 1]), <<":">>)

\* The indentation the claim gives the header at line i.
ClaimedHeaderIndent(buf, i) ==
    IF AfterOpener(buf, i) THEN LeadLen(buf[i - 1]) + IndentUnit ELSE 0

\* C24: when the parse fails, every indented def/class line is emitted one
\* level deeper than the line before it if that line opens a block and at
\* column 0 otherwise, and every other line is emitted as it was.
C24_HeuristicIndent ==
    (Returned /\ run = 1 /\ ~Parses(pre)) =>
        /\ Len(code) = Len(pre)
        /\ \A i \in 1..Len(pre) :
               IF IsHeader(pre[i]) /\ LeadLen(pre[i]) > 0
               THEN code[i] = Spaces(ClaimedHeaderIndent(pre, i)) \o Strip(pre[i])
               ELSE code[i] = pre[i]

\* ------------------------------------------------------------------ C25
\* The line holds a width call on the object name itself: the name is not
\* the end of a longer name.
OwnWidthCall(line, name) ==
    \E k \in 1..Len(line) :
        /\ OccursAt(line, name \o <<".", "set_", "max_width">>, k)
        /\ (k = 1 \/ line[k - 1] \notin WordTok)

\* The declarations of buf with a non-empty quoted text and no width call
\* on that very object in the 10 lines that follow.
WithoutOwnCall(buf) ==
    {i \in Declarations(buf) :
        /\ TextLength(buf[i]) > 0
        /\ \A j \in (i + 1)..Min(i + LookAhead, Len(buf)) :
               ~OwnWidthCall(buf[j], DeclaredName(buf[i]))}

\* C25: a declared object is left without an injected width call only if
\* one of the 10 lines after its declaration holds a width call on that
\* very object: every other declaration is followed by an injected call.
C25_OnlyOwnCallCounts ==
    AfterLayout =>
        \A i \in WithoutOwnCall(pre) :
            \E k \in 1..(Len(code) - 1) :
                /\ k \in Declarations(code)
                /\ DeclaredName(code[k]) = DeclaredName(pre[i])
                /\ StartsWith(LStrip(code[k + 1]),
                              DeclaredName(pre[i]) \o <<".", "set_", "max_width", "(">>)

\* ------------------------------------------------------------------ C26
\* C26: for every input that parses as a Python program, the text the
\* pipeline returns parses as a Python program.
C26_ValidStaysValid ==
    (Returned /\ run = 1 /\ Parses(raw_code)) => Parses(code)

\* ------------------------------------------------------------------ C27
\* C27: after LayoutEnforcer the final y coordinates of any two positioning
\* calls of registered text objects are at least 0.8 apart.
C27_AllPairsSpaced ==
    AfterLayout =>
        \A j \in 1..Len(Finals), k \in 1..Len(Finals) :
            j < k => Abs(Finals[j] - Finals[k]) >= MinSpacing

\* ------------------------------------------------------------------ C28
\* The line is one TimingRepairer matches.
TimingMatched(line) ==
    /\ Contains(line, SelfWait)
    /\ Contains(line, <<" ", "-", " ", "current_time">>)
    /\ ReSearch(WaitPat, line) # <<>>

\* The text of a matched line before and after the wait call, without the
\* whitespace at its ends.
TextBefore(line) == Strip(Slice(line, 1, MStart(ReSearch(WaitPat, line)) - 1))

TextAfter(line) == Strip(From(line, MEnd(ReSearch(WaitPat, line))))

\* From line i of before and line k of after on: an unmatched line is the
\* next line of after, and a matched line is followed by two lines that
\* still hold the rest of its text.
RECURSIVE OnlyWrapped(_, _, _, _)
OnlyWrapped(before, i, after, k) ==
    IF i > Len(before) THEN k = Len(after) + 1
    ELSE IF TimingMatched(before[i])
         THEN /\ k + 1 <= Len(after)
              /\ \E n \in {k, k + 1} : Contains(after[n], TextBefore(before[i]))
              /\ \E n \in {k, k + 1} : Contains(after[n], TextAfter(before[i]))
              /\ OnlyWrapped(before, i + 1, after, k + 2)
         ELSE /\ k <= Len(after)
              /\ after[k] = before[i]
              /\ OnlyWrapped(before, i + 1, after, k + 1)

\* C28: TimingRepairer keeps every piece of text of a matched line other
\* than the wait call it wraps, and emits every unmatched line unchanged
\* and in order.
C28_OnlyWaitWrapped == AfterTiming => OnlyWrapped(pre, 1, code, 1)

\* ------------------------------------------------------------------ C29
\* C29: of two lines that hold text, the one indented strictly deeper
\* before IndentationNormalizer is indented strictly deeper after it.
C29_NestingPreserved ==
    AfterIndent =>
        \A i \in 1..Len(pre), j \in 1..Len(pre) :
            (/\ ~Blank(pre[i])
             /\ ~Blank(pre[j])
             /\ LeadWidthAt(pre[i], 0) < LeadWidthAt(pre[j], 0)) =>
                LeadLen(code[i]) < LeadLen(code[j])

\* ------------------------------------------------------------------ C30
\* C30: in the combined program every collected import statement is a line
\* of its own, and no line holds two import statements.
C30_ImportsOnOwnLines ==
    combining.returned =>
        /\ \A imp \in combining.imports_needed :
               \E n \in 1..Len(combining.combined_code) :
                   combining.combined_code[n] = imp
        /\ \A n \in 1..Len(combining.combined_code) :
               ~RunTogether(combining.combined_code[n])

====
